---- MODULE Spec2Model ----
(***************************************************************************)
(* Model of the request-authorization gate of packages/server (the         *)
(* "Simplified Authentication Middleware" installed by App.config) and of  *)
(* FlowiseUserService.findOrCreateUserByEmail over the FlowiseUser table.  *)
(*                                                                         *)
(* Every request is an independent task.  A task runs synchronously up to  *)
(* an await; the two awaits of a protected request are the two storage     *)
(* round-trips of findOrCreateUserByEmail (findOneBy, save).  The user     *)
(* table is the only state shared between requests, so requests of the     *)
(* same or of different server processes interleave at exactly these two   *)
(* points.                                                                 *)
(***************************************************************************)
EXTENDS Integers, Sequences, FiniteSets, TLC

\* Number of requests that enter the gate in one behaviour.
NumReq == 2

Req == 1..NumReq

(***************************************************************************)
(* Paths are sequences of characters, so that the two regular expressions  *)
(* and String.startsWith are computed character by character.              *)
(***************************************************************************)
ApiV1Pattern == <<"/", "a", "p", "i", "/", "v", "1", "/">>

PathAssets == <<"/", "a", "s">>
PathApiNoSlash == <<"/", "a", "p", "i", "/", "v", "1">>
PathProtected == <<"/", "a", "p", "i", "/", "v", "1", "/", "c">>
PathNested == <<"/", "x", "/", "a", "p", "i", "/", "v", "1", "/", "c">>
PathUpper == <<"/", "A", "P", "I", "/", "v", "1", "/", "c">>
PathWhitelisted == <<"/", "a", "p", "i", "/", "v", "1", "/", "m", "/", "c">>
PathUpperWhitelisted == <<"/", "A", "P", "I", "/", "v", "1", "/", "m", "/", "c">>

Paths ==
    { PathAssets, PathApiNoSlash, PathProtected, PathNested, PathUpper,
      PathWhitelisted, PathUpperWhitelisted }

\* WHITELIST_URLS of utils/constants: a list of path prefixes.  The tests
\* name /api/v1/marketplaces/chatflows as a whitelisted route.
WHITELIST_URLS == { <<"/", "a", "p", "i", "/", "v", "1", "/", "m">> }

\* Case folding of the /i flag, on the characters that occur in Paths.
ToLower(c) ==
    CASE c = "A" -> "a"
      [] c = "P" -> "p"
      [] c = "I" -> "i"
      [] c = "V" -> "v"
      [] OTHER -> c

\* RegExp.prototype.test for an unanchored literal pattern: the pattern
\* occurs somewhere in the string.
RegexTest(pattern, ignoreCase, str) ==
    \E i \in 0..(Len(str) - Len(pattern)) :
        \A j \in 1..Len(pattern) :
            IF ignoreCase
            THEN ToLower(str[i + j]) = ToLower(pattern[j])
            ELSE str[i + j] = pattern[j]

\* The pattern without its closing slash.
InsensitiveNoTrailingSlash(p) == RegexTest(SubSeq(ApiV1Pattern, 1, Len(ApiV1Pattern) - 1), TRUE, p)

URL_CASE_INSENSITIVE_REGEX(p) == RegexTest(ApiV1Pattern, TRUE, p)

\* The /i flag left on the second pattern.
SensitiveWithIFlag(p) == RegexTest(ApiV1Pattern, TRUE, p)

URL_CASE_SENSITIVE_REGEX(p) == RegexTest(ApiV1Pattern, FALSE, p)

StartsWith(str, prefix) ==
    /\ Len(prefix) <= Len(str)
    /\ \A j \in 1..Len(prefix) : str[j] = prefix[j]

\* whitelistURLs.includes(req.path) in place of some(startsWith).
isWhitelistedExact(p) == p \in WHITELIST_URLS

isWhitelisted(p) == \E url \in WHITELIST_URLS : StartsWith(p, url)

(***************************************************************************)
(* Headers.  A header is absent (<<>>) or carries one string (<<s>>).      *)
(***************************************************************************)
Emails == {"a@x", "b@x"}

ForwardedEmailValues == {<<>>, <<"">>} \cup { <<e>> : e \in Emails }

AuthorizationValues == {<<>>, <<"Bearer k">>}

Headers == [xForwardedEmail : ForwardedEmailValues, authorization : AuthorizationValues]

\* forwardedEmail !== undefined in place of the truthiness test.
DefinedOnly(h) == h # <<>>

\* if (forwardedEmail): undefined and the empty string are falsy.
Truthy(h) == h # <<>> /\ h # <<"">>

\* A bearer token, when present, shadowing the forwarded email.
forwardedEmailUnlessBearer(h) == Truthy(h.xForwardedEmail) /\ h.authorization = <<>>

\* const forwardedEmail = req.headers['x-forwarded-email']; if (forwardedEmail):
\* the only header the gate reads.
hasForwardedEmail(h) == Truthy(h.xForwardedEmail)

\* What IdentityManager reports: the platform type and the license validity.
OpenSourceLicensed == [platformType |-> "OPEN_SOURCE", licenseValid |-> TRUE]

EnterpriseUnlicensed == [platformType |-> "ENTERPRISE", licenseValid |-> FALSE]

(***************************************************************************)
(* Responses of the gate.                                                  *)
(***************************************************************************)
\* The denial of the gate's API-key variant.
MissingApiKeyResponse ==
    [status |-> 401, error |-> "Unauthorized Access - Missing or Invalid API Key"]

\* The denial of the gate's license check.
InvalidLicenseResponse ==
    [status |-> 401, error |-> "Unauthorized Access - Invalid License"]

MissingHeaderResponse ==
    [status |-> 401, error |-> "Unauthorized: X-Forwarded-Email header is required"]

InvalidPathResponse ==
    [status |-> 401, error |-> "Unauthorized Access - Invalid Path Structure"]

\* The catch block answering with the status of the other denials.
AuthErrorAs401 ==
    [status |-> 401, error |-> "Internal Server Error during authentication"]

AuthErrorResponse ==
    [status |-> 500, error |-> "Internal Server Error during authentication"]

(***************************************************************************)
(* The FlowiseUser table.                                                  *)
(***************************************************************************)
\* @PrimaryGeneratedColumn('uuid'): an id no row of the table carries.
GeneratedUuid(table) ==
    CHOOSE i \in 1..(Cardinality(table) + 1) : \A u \in table : u.id # i

\* The email column without its unique constraint.
NoUniqueConstraint(table, email) == FALSE

\* @Column({ unique: true }) on email: an insert of a second row with the
\* same email is rejected by the storage layer.
UniqueViolation(table, email) == \E u \in table : u.email = email

\* The row an insert of { email } produces; @CreateDateColumn and
\* @UpdateDateColumn are set by the store (a logical clock: the insert's
\* ordinal).
InsertedRow(table, email) ==
    [id |-> GeneratedUuid(table), email |-> email,
     createdDate |-> Cardinality(table) + 1, updatedDate |-> Cardinality(table) + 1]

\* findOneBy with a where clause that does not constrain email.
FindOneByAnyRow(table, email) == table

\* userRepository.findOneBy({ email }): the rows with that email.
FindOneBy(table, email) == { u \in table : u.email = email }

\* Errors a storage call throws.
UniqueError == "QueryFailedError: UNIQUE constraint failed: flowise_user.email"
StorageError == "storage failure"

\* The identity with the flag an API-key login would set left switched on.
loggedInUserShapeKeyValidated(flowiseDbUser) ==
    [id |-> flowiseDbUser.id,
     email |-> flowiseDbUser.email,
     isAuthenticatedByHeader |-> TRUE,
     name |-> flowiseDbUser.email,
     roleId |-> "",
     activeOrganizationId |-> "",
     activeOrganizationSubscriptionId |-> "",
     activeOrganizationCustomerId |-> "",
     activeOrganizationProductId |-> "",
     isOrganizationAdmin |-> FALSE,
     activeWorkspaceId |-> "",
     activeWorkspace |-> "",
     assignedWorkspaces |-> <<>>,
     isApiKeyValidated |-> TRUE,
     permissions |-> <<>>,
     features |-> {},
     ssoRefreshToken |-> <<>>,
     ssoToken |-> <<>>,
     ssoProvider |-> <<>>]

\* The identity the gate synthesizes from the row the service returned.
loggedInUserShape(flowiseDbUser) ==
    [id |-> flowiseDbUser.id,
     email |-> flowiseDbUser.email,
     isAuthenticatedByHeader |-> TRUE,
     name |-> flowiseDbUser.email,
     roleId |-> "",
     activeOrganizationId |-> "",
     activeOrganizationSubscriptionId |-> "",
     activeOrganizationCustomerId |-> "",
     activeOrganizationProductId |-> "",
     isOrganizationAdmin |-> FALSE,
     activeWorkspaceId |-> "",
     activeWorkspace |-> "",
     assignedWorkspaces |-> <<>>,
     isApiKeyValidated |-> FALSE,
     permissions |-> <<>>,
     features |-> {},
     ssoRefreshToken |-> <<>>,
     ssoToken |-> <<>>,
     ssoProvider |-> <<>>]

VARIABLES
    users,      \* the FlowiseUser table
    pc,         \* pc[r]: where request r stands
    request,    \* request[r]: <<>> before arrival, then <<[path, headers]>>
    calls,      \* calls[r]: the arguments of r's calls of findOrCreateUserByEmail
    svc,        \* svc[r]: <<>> or the outcome of r's findOrCreateUserByEmail call
    reqUser,    \* reqUser[r]: req.user, <<>> when undefined
    res,        \* res[r]: the responses the gate emitted for r
    nextCalls,  \* nextCalls[r]: how often the gate called next() for r
    keyCalls,   \* keyCalls[r]: how often the gate called validateAPIKey for r
    trace,      \* trace[r]: the steps taken for r, in the order they were taken
    identityManager \* what this.identityManager reports (platform, license)

vars ==
    <<users, pc, request, calls, svc, reqUser, res, nextCalls, keyCalls, trace,
      identityManager>>

InitRequests ==
    /\ users = {}
    /\ pc = [r \in Req |-> "idle"]
    /\ request = [r \in Req |-> <<>>]
    /\ calls = [r \in Req |-> <<>>]
    /\ svc = [r \in Req |-> <<>>]
    /\ reqUser = [r \in Req |-> <<>>]
    /\ res = [r \in Req |-> <<>>]
    /\ nextCalls = [r \in Req |-> 0]
    /\ keyCalls = [r \in Req |-> 0]
    /\ trace = [r \in Req |-> <<>>]

\* The open-source platform the test suites start the server with.
Init == InitRequests /\ identityManager = OpenSourceLicensed

\* An enterprise platform whose license is invalid.
InitEnterprise == InitRequests /\ identityManager = EnterpriseUnlicensed

Log(r, events) == trace' = [trace EXCEPT ![r] = @ \o events]

\* return next()
Next_(r) ==
    /\ nextCalls' = [nextCalls EXCEPT ![r] = @ + 1]
    /\ pc' = [pc EXCEPT ![r] = "done"]

\* return res.status(..).json(..)
Respond(r, response) ==
    /\ res' = [res EXCEPT ![r] = Append(@, response)]
    /\ pc' = [pc EXCEPT ![r] = "done"]

\* The second pattern given the g flag: test() then resumes at the
\* lastIndex the previous successful test left, so that of the tests on
\* paths containing /api/v1/ every second one fails.
MiddlewareWithGFlag(r, p, h) ==
    /\ pc[r] = "idle"
    /\ request' = [request EXCEPT ![r] = <<[path |-> p, headers |-> h]>>]
    /\ LET tested == { q \in Req : /\ request[q] # <<>>
                                   /\ URL_CASE_SENSITIVE_REGEX(request[q][1].path) }
       IN  IF URL_CASE_INSENSITIVE_REGEX(p)
           THEN IF URL_CASE_SENSITIVE_REGEX(p) /\ Cardinality(tested) % 2 = 0
                THEN IF isWhitelisted(p)
                     THEN /\ Next_(r)
                          /\ Log(r, <<"classify", "next">>)
                          /\ UNCHANGED <<calls, res>>
                     ELSE IF hasForwardedEmail(h)
                          THEN /\ calls' = [calls EXCEPT ![r] = Append(@, h.xForwardedEmail[1])]
                               /\ pc' = [pc EXCEPT ![r] = "findOneBy"]
                               /\ Log(r, <<"classify", "extract", "call">>)
                               /\ UNCHANGED <<res, nextCalls>>
                          ELSE /\ Respond(r, MissingHeaderResponse)
                               /\ Log(r, <<"classify", "extract", "respond">>)
                               /\ UNCHANGED <<calls, nextCalls>>
                ELSE /\ Respond(r, InvalidPathResponse)
                     /\ Log(r, <<"classify", "respond">>)
                     /\ UNCHANGED <<calls, nextCalls>>
           ELSE /\ Next_(r)
                /\ Log(r, <<"classify", "next">>)
                /\ UNCHANGED <<calls, res>>
    /\ UNCHANGED <<users, svc, reqUser, keyCalls, identityManager>>

\* The whitelist consulted first, and on the lower-cased path.
MiddlewareWhitelistFirst(r, p, h) ==
    /\ pc[r] = "idle"
    /\ request' = [request EXCEPT ![r] = <<[path |-> p, headers |-> h]>>]
    /\ IF URL_CASE_INSENSITIVE_REGEX(p)
       THEN IF isWhitelisted([j \in 1..Len(p) |-> ToLower(p[j])])
            THEN /\ Next_(r)
                 /\ Log(r, <<"classify", "next">>)
                 /\ UNCHANGED <<calls, res>>
            ELSE IF URL_CASE_SENSITIVE_REGEX(p)
                 THEN IF hasForwardedEmail(h)
                      THEN /\ calls' = [calls EXCEPT ![r] = Append(@, h.xForwardedEmail[1])]
                           /\ pc' = [pc EXCEPT ![r] = "findOneBy"]
                           /\ Log(r, <<"classify", "extract", "call">>)
                           /\ UNCHANGED <<res, nextCalls>>
                      ELSE /\ Respond(r, MissingHeaderResponse)
                           /\ Log(r, <<"classify", "extract", "respond">>)
                           /\ UNCHANGED <<calls, nextCalls>>
                 ELSE /\ Respond(r, InvalidPathResponse)
                      /\ Log(r, <<"classify", "respond">>)
                      /\ UNCHANGED <<calls, nextCalls>>
       ELSE /\ Next_(r)
            /\ Log(r, <<"classify", "next">>)
            /\ UNCHANGED <<calls, res>>
    /\ UNCHANGED <<users, svc, reqUser, keyCalls, identityManager>>

(***************************************************************************)
(* The authentication middleware, from its entry to its first await.       *)
(***************************************************************************)
Middleware(r, p, h) ==
    /\ pc[r] = "idle"
    /\ request' = [request EXCEPT ![r] = <<[path |-> p, headers |-> h]>>]
    /\ IF URL_CASE_INSENSITIVE_REGEX(p)
       THEN IF URL_CASE_SENSITIVE_REGEX(p)
            THEN IF isWhitelisted(p)
                 THEN /\ Next_(r)
                      /\ Log(r, <<"classify", "next">>)
                      /\ UNCHANGED <<calls, res>>
                 ELSE IF hasForwardedEmail(h)
                      THEN \* flowiseUserService.findOrCreateUserByEmail(forwardedEmail)
                           /\ calls' = [calls EXCEPT ![r] = Append(@, h.xForwardedEmail[1])]
                           /\ pc' = [pc EXCEPT ![r] = "findOneBy"]
                           /\ Log(r, <<"classify", "extract", "call">>)
                           /\ UNCHANGED <<res, nextCalls>>
                      ELSE /\ Respond(r, MissingHeaderResponse)
                           /\ Log(r, <<"classify", "extract", "respond">>)
                           /\ UNCHANGED <<calls, nextCalls>>
            ELSE /\ Respond(r, InvalidPathResponse)
                 /\ Log(r, <<"classify", "respond">>)
                 /\ UNCHANGED <<calls, nextCalls>>
       ELSE /\ Next_(r)
            /\ Log(r, <<"classify", "next">>)
            /\ UNCHANGED <<calls, res>>
    \* validateAPIKey is no longer imported and identityManager is not
    \* consulted: no branch of the gate calls either
    /\ UNCHANGED <<users, svc, reqUser, keyCalls, identityManager>>

\* The found user saved back before it is returned, which makes the store
\* set its updatedDate.
ServiceFindTouching(r, fails) ==
    /\ pc[r] = "findOneBy"
    /\ LET email == calls[r][Len(calls[r])]
           found == FindOneBy(users, email)
           user == CHOOSE u \in found : TRUE
           touched == [user EXCEPT !.updatedDate = @ + 1]
       IN  IF fails
           THEN /\ svc' = [svc EXCEPT ![r] = <<[kind |-> "throw", error |-> StorageError]>>]
                /\ pc' = [pc EXCEPT ![r] = "settled"]
                /\ Log(r, <<"findOneBy", "throw">>)
                /\ UNCHANGED users
           ELSE IF found # {}
                THEN /\ users' = (users \ {user}) \cup {touched}
                     /\ svc' = [svc EXCEPT ![r] = <<[kind |-> "return", user |-> touched]>>]
                     /\ pc' = [pc EXCEPT ![r] = "settled"]
                     /\ Log(r, <<"findOneBy", "return">>)
                ELSE /\ pc' = [pc EXCEPT ![r] = "save"]
                     /\ Log(r, <<"findOneBy">>)
                     /\ UNCHANGED <<svc, users>>
    /\ UNCHANGED <<request, calls, reqUser, res, nextCalls, keyCalls, identityManager>>

\* A save whose failure is reported after the row was written.
ServiceSaveNotAtomic(r, fails) ==
    /\ pc[r] = "save"
    /\ LET email == calls[r][Len(calls[r])]
           row == InsertedRow(users, email)
       IN  IF UniqueViolation(users, email)
           THEN /\ svc' = [svc EXCEPT ![r] = <<[kind |-> "throw", error |-> UniqueError]>>]
                /\ Log(r, <<"save", "throw">>)
                /\ UNCHANGED users
           ELSE /\ users' = users \cup {row}
                /\ IF fails
                   THEN /\ svc' = [svc EXCEPT ![r] =
                                     <<[kind |-> "throw", error |-> StorageError]>>]
                        /\ Log(r, <<"save", "throw">>)
                   ELSE /\ svc' = [svc EXCEPT ![r] = <<[kind |-> "return", user |-> row]>>]
                        /\ Log(r, <<"save", "return">>)
    /\ pc' = [pc EXCEPT ![r] = "settled"]
    /\ UNCHANGED <<request, calls, reqUser, res, nextCalls, keyCalls, identityManager>>

(***************************************************************************)
(* findOrCreateUserByEmail: the findOneBy round-trip and what follows it   *)
(* up to the save, and the save round-trip.                                *)
(***************************************************************************)
ServiceFind(r, fails) ==
    /\ pc[r] = "findOneBy"
    /\ LET email == calls[r][Len(calls[r])]
           found == FindOneBy(users, email)
       IN  IF fails
           THEN /\ svc' = [svc EXCEPT ![r] = <<[kind |-> "throw", error |-> StorageError]>>]
                /\ pc' = [pc EXCEPT ![r] = "settled"]
                /\ Log(r, <<"findOneBy", "throw">>)
           ELSE IF found # {}
                THEN /\ svc' = [svc EXCEPT ![r] =
                                  <<[kind |-> "return", user |-> CHOOSE u \in found : TRUE]>>]
                     /\ pc' = [pc EXCEPT ![r] = "settled"]
                     /\ Log(r, <<"findOneBy", "return">>)
                ELSE /\ pc' = [pc EXCEPT ![r] = "save"]
                     /\ Log(r, <<"findOneBy">>)
                     /\ UNCHANGED svc
    /\ UNCHANGED <<users, request, calls, reqUser, res, nextCalls, keyCalls, identityManager>>

\* save() acting as an upsert on the email column: a conflicting insert
\* replaces the stored row by the new one, under a new id.
ServiceSaveUpsert(r, fails) ==
    /\ pc[r] = "save"
    /\ LET email == calls[r][Len(calls[r])]
           row == InsertedRow(users, email)
       IN  IF fails
           THEN /\ svc' = [svc EXCEPT ![r] = <<[kind |-> "throw", error |-> StorageError]>>]
                /\ Log(r, <<"save", "throw">>)
                /\ UNCHANGED users
           ELSE /\ users' = { u \in users : u.email # email } \cup {row}
                /\ svc' = [svc EXCEPT ![r] = <<[kind |-> "return", user |-> row]>>]
                /\ Log(r, <<"save", "return">>)
    /\ pc' = [pc EXCEPT ![r] = "settled"]
    /\ UNCHANGED <<request, calls, reqUser, res, nextCalls, keyCalls, identityManager>>

\* A save that swallows the rejection of a conflicting insert and returns
\* the entity it tried to insert, which no row of the table backs.
ServiceSaveSwallowingConflict(r, fails) ==
    /\ pc[r] = "save"
    /\ LET email == calls[r][Len(calls[r])]
           row == InsertedRow(users, email)
       IN  IF fails
           THEN /\ svc' = [svc EXCEPT ![r] = <<[kind |-> "throw", error |-> StorageError]>>]
                /\ Log(r, <<"save", "throw">>)
                /\ UNCHANGED users
           ELSE IF UniqueViolation(users, email)
                THEN /\ svc' = [svc EXCEPT ![r] = <<[kind |-> "return", user |-> row]>>]
                     /\ Log(r, <<"save", "return">>)
                     /\ UNCHANGED users
                ELSE /\ users' = users \cup {row}
                     /\ svc' = [svc EXCEPT ![r] = <<[kind |-> "return", user |-> row]>>]
                     /\ Log(r, <<"save", "return">>)
    /\ pc' = [pc EXCEPT ![r] = "settled"]
    /\ UNCHANGED <<request, calls, reqUser, res, nextCalls, keyCalls, identityManager>>

ServiceSave(r, fails) ==
    /\ pc[r] = "save"
    /\ LET email == calls[r][Len(calls[r])]
           row == InsertedRow(users, email)
       IN  IF fails
           THEN /\ svc' = [svc EXCEPT ![r] = <<[kind |-> "throw", error |-> StorageError]>>]
                /\ Log(r, <<"save", "throw">>)
                /\ UNCHANGED users
           ELSE IF UniqueViolation(users, email)
                THEN /\ svc' = [svc EXCEPT ![r] = <<[kind |-> "throw", error |-> UniqueError]>>]
                     /\ Log(r, <<"save", "throw">>)
                     /\ UNCHANGED users
                ELSE /\ users' = users \cup {row}
                     /\ svc' = [svc EXCEPT ![r] = <<[kind |-> "return", user |-> row]>>]
                     /\ Log(r, <<"save", "return">>)
    /\ pc' = [pc EXCEPT ![r] = "settled"]
    /\ UNCHANGED <<request, calls, reqUser, res, nextCalls, keyCalls, identityManager>>

\* The try block handing the request on without the req.user assignment.
ResumeWithoutAttach(r) ==
    /\ pc[r] = "settled"
    /\ IF svc[r][1].kind = "return"
       THEN /\ Next_(r)
            /\ Log(r, <<"next">>)
            /\ UNCHANGED <<res, reqUser>>
       ELSE /\ Respond(r, AuthErrorResponse)
            /\ Log(r, <<"respond">>)
            /\ UNCHANGED <<reqUser, nextCalls>>
    /\ UNCHANGED <<users, request, calls, svc, keyCalls, identityManager>>

\* req.user seeded with the header's email ahead of the service call, so
\* that the catch block answers with a half-filled req.user in place.
ResumeAttachingOnError(r) ==
    /\ pc[r] = "settled"
    /\ IF svc[r][1].kind = "return"
       THEN /\ reqUser' = [reqUser EXCEPT ![r] = <<loggedInUserShape(svc[r][1].user)>>]
            /\ Next_(r)
            /\ Log(r, <<"attach", "next">>)
            /\ UNCHANGED res
       ELSE /\ reqUser' = [reqUser EXCEPT ![r] = <<[email |-> calls[r][1]]>>]
            /\ Respond(r, AuthErrorResponse)
            /\ Log(r, <<"attach", "respond">>)
            /\ UNCHANGED nextCalls
    /\ UNCHANGED <<users, request, calls, svc, keyCalls, identityManager>>

\* The catch block calling the service a second time before giving up.
ResumeRetryingOnce(r) ==
    /\ pc[r] = "settled"
    /\ IF svc[r][1].kind = "return"
       THEN /\ reqUser' = [reqUser EXCEPT ![r] = <<loggedInUserShape(svc[r][1].user)>>]
            /\ Next_(r)
            /\ Log(r, <<"attach", "next">>)
            /\ UNCHANGED <<res, calls, svc>>
       ELSE IF Len(calls[r]) < 2
            THEN /\ calls' = [calls EXCEPT ![r] = Append(@, @[1])]
                 /\ svc' = [svc EXCEPT ![r] = <<>>]
                 /\ pc' = [pc EXCEPT ![r] = "findOneBy"]
                 /\ Log(r, <<"call">>)
                 /\ UNCHANGED <<reqUser, nextCalls, res>>
            ELSE /\ Respond(r, AuthErrorResponse)
                 /\ Log(r, <<"respond">>)
                 /\ UNCHANGED <<reqUser, nextCalls, calls, svc>>
    /\ UNCHANGED <<users, request, keyCalls, identityManager>>

\* next() called ahead of the req.user assignment.
ResumeNextBeforeAttach(r) ==
    /\ pc[r] = "settled"
    /\ IF svc[r][1].kind = "return"
       THEN /\ reqUser' = [reqUser EXCEPT ![r] = <<loggedInUserShape(svc[r][1].user)>>]
            /\ Next_(r)
            /\ Log(r, <<"next", "attach">>)
            /\ UNCHANGED res
       ELSE /\ Respond(r, AuthErrorResponse)
            /\ Log(r, <<"respond">>)
            /\ UNCHANGED <<reqUser, nextCalls>>
    /\ UNCHANGED <<users, request, calls, svc, keyCalls, identityManager>>

\* A catch block that logs the error and returns without answering.
ResumeSwallowingError(r) ==
    /\ pc[r] = "settled"
    /\ IF svc[r][1].kind = "return"
       THEN /\ reqUser' = [reqUser EXCEPT ![r] = <<loggedInUserShape(svc[r][1].user)>>]
            /\ Next_(r)
            /\ Log(r, <<"attach", "next">>)
            /\ UNCHANGED res
       ELSE /\ pc' = [pc EXCEPT ![r] = "done"]
            /\ Log(r, <<"catch">>)
            /\ UNCHANGED <<reqUser, nextCalls, res>>
    /\ UNCHANGED <<users, request, calls, svc, keyCalls, identityManager>>

\* flowiseDbUser kept in a variable shared by all requests: the
\* continuation reads what some request's store call left there.
ResumeSharedResult(r) ==
    /\ pc[r] = "settled"
    /\ IF svc[r][1].kind = "return"
       THEN /\ \E q \in Req :
                 /\ svc[q] # <<>>
                 /\ svc[q][1].kind = "return"
                 /\ reqUser' = [reqUser EXCEPT ![r] = <<loggedInUserShape(svc[q][1].user)>>]
            /\ Next_(r)
            /\ Log(r, <<"attach", "next">>)
            /\ UNCHANGED res
       ELSE /\ Respond(r, AuthErrorResponse)
            /\ Log(r, <<"respond">>)
            /\ UNCHANGED <<reqUser, nextCalls>>
    /\ UNCHANGED <<users, request, calls, svc, keyCalls, identityManager>>

(***************************************************************************)
(* The middleware after the await: the rest of the try block, or the catch.*)
(***************************************************************************)
MiddlewareResume(r) ==
    /\ pc[r] = "settled"
    /\ IF svc[r][1].kind = "return"
       THEN /\ reqUser' = [reqUser EXCEPT ![r] = <<loggedInUserShape(svc[r][1].user)>>]
            /\ Next_(r)
            /\ Log(r, <<"attach", "next">>)
            /\ UNCHANGED res
       ELSE /\ Respond(r, AuthErrorResponse)
            /\ Log(r, <<"respond">>)
            /\ UNCHANGED <<reqUser, nextCalls>>
    /\ UNCHANGED <<users, request, calls, svc, keyCalls, identityManager>>

Arrive == \E r \in Req, p \in Paths, h \in Headers : Middleware(r, p, h)

Find == \E r \in Req, fails \in BOOLEAN : ServiceFind(r, fails)

Save == \E r \in Req, fails \in BOOLEAN : ServiceSave(r, fails)

Resume == \E r \in Req : MiddlewareResume(r)

Next == Arrive \/ Find \/ Save \/ Resume

Spec == Init /\ [][Next]_vars

SpecEnterprise == InitEnterprise /\ [][Next]_vars

(***************************************************************************)
(* The gate under the scheduling the runtime gives it: a storage           *)
(* round-trip that was started is eventually answered, with a result or    *)
(* with an error (Find, Save), and the event loop eventually runs the      *)
(* continuation of an await whose promise has settled (Resume).  Nothing   *)
(* is assumed about when, or whether, further requests arrive.             *)
(***************************************************************************)
SpecFair ==
    /\ Init
    /\ [][Next]_vars
    /\ WF_vars(Find)
    /\ WF_vars(Save)
    /\ WF_vars(Resume)

(***************************************************************************)
(* Vocabulary of the properties.  The path classes are stated here on the  *)
(* path as a string, independently of the gate's own regular expressions.  *)
(***************************************************************************)
Arrived(r) == request[r] # <<>>

PathOf(r) == request[r][1].path

ForwardedEmailOf(r) == request[r][1].headers.xForwardedEmail

AuthorizationOf(r) == request[r][1].headers.authorization

Folded(p) == [j \in 1..Len(p) |-> ToLower(p[j])]

ContainsApiV1(p) ==
    \E i \in 1..(Len(p) - Len(ApiV1Pattern) + 1) :
        SubSeq(p, i, i + Len(ApiV1Pattern) - 1) = ApiV1Pattern

\* The answers for the paths the requests carry, computed once.
CaseSensitiveMatches == { p \in Paths : ContainsApiV1(p) }

CaseInsensitiveMatches == { p \in Paths : ContainsApiV1(Folded(p)) }

MatchesCaseSensitively(p) ==
    IF p \in Paths THEN p \in CaseSensitiveMatches ELSE ContainsApiV1(p)

MatchesCaseInsensitively(p) ==
    IF p \in Paths THEN p \in CaseInsensitiveMatches ELSE ContainsApiV1(Folded(p))

BeginsWhitelisted(p) ==
    \E url \in WHITELIST_URLS : Len(url) <= Len(p) /\ SubSeq(p, 1, Len(url)) = url

WhitelistedPrefixMatches == { p \in Paths : BeginsWhitelisted(p) }

HasWhitelistedPrefix(p) ==
    IF p \in Paths THEN p \in WhitelistedPrefixMatches ELSE BeginsWhitelisted(p)

OnProtectedPath(r) ==
    /\ Arrived(r)
    /\ MatchesCaseSensitively(PathOf(r))
    /\ ~HasWhitelistedPrefix(PathOf(r))

HasForwardedEmail(r) == ForwardedEmailOf(r) \notin {<<>>, <<"">>}

Returned(r) == svc[r] # <<>> /\ svc[r][1].kind = "return"

Threw(r) == svc[r] # <<>> /\ svc[r][1].kind = "throw"

RowsOf(table, email) == { u \in table : u.email = email }

\* The request was handed to downstream routing and nothing was answered.
Allowed(r) == pc[r] = "done" /\ nextCalls[r] = 1 /\ res[r] = <<>>

\* The request was answered with exactly this response and not handed on.
DeniedWith(r, status, error) ==
    /\ pc[r] = "done"
    /\ nextCalls[r] = 0
    /\ res[r] = <<[status |-> status, error |-> error]>>

(***************************************************************************)
(* C1: in every reachable state the user table holds at most one record    *)
(* for any given email, whatever the interleaving of the requests.         *)
(***************************************************************************)
C1_AtMostOneRecordPerEmail ==
    \A u, v \in users : u.email = v.email => u = v

\* Two requests raced on one unseen email: both read "no record", one
\* inserted, the other's insert was rejected.
C1_Witness ==
    \E r, q \in Req :
        /\ r # q
        /\ Returned(r)
        /\ Threw(q) /\ svc[q][1].error = UniqueError
        /\ calls[r] = calls[q]
        /\ Cardinality(users) = 1

(***************************************************************************)
(* C2 (as claimed): when two or more requests on a protected path carry    *)
(* the same forwarded email, all are finished and no storage call failed   *)
(* for a reason other than the uniqueness constraint, exactly one record   *)
(* exists for the email and every one of them was allowed with an identity *)
(* carrying that record's id.                                              *)
(***************************************************************************)
C2_AllRacersAllowed ==
    \A e \in Emails :
        LET R == { r \in Req : OnProtectedPath(r) /\ ForwardedEmailOf(r) = <<e>> }
        IN  ( /\ Cardinality(R) >= 2
              /\ \A r \in R : pc[r] = "done"
              /\ \A r \in R : ~(Threw(r) /\ svc[r][1].error = StorageError) )
            => /\ Cardinality(RowsOf(users, e)) = 1
               /\ \A r \in R :
                    /\ Allowed(r)
                    /\ reqUser[r] # <<>>
                    /\ \A u \in RowsOf(users, e) : reqUser[r][1].id = u.id

(***************************************************************************)
(* C3 (as claimed): a create attempt rejected by the uniqueness constraint *)
(* is never surfaced to the caller of findOrCreateUserByEmail as a         *)
(* failure.                                                                *)
(***************************************************************************)
C3_UniqueViolationNotSurfaced ==
    \A r \in Req : Threw(r) => svc[r][1].error # UniqueError

(***************************************************************************)
(* C4: once a call of findOrCreateUserByEmail(email) has returned a        *)
(* record, every call with the same email that returns later returns a     *)
(* record with the same id, and the email then has exactly one record.     *)
(***************************************************************************)
C4_LaterCallSameId ==
    [][ \A r, q \in Req :
          ( /\ svc[r] = <<>>
            /\ svc'[r] # <<>>
            /\ svc'[r][1].kind = "return"
            /\ Returned(q)
            /\ calls[q] = calls[r] )
          => /\ svc'[r][1].user.id = svc[q][1].user.id
             /\ Cardinality(RowsOf(users', calls[r][1])) = 1 ]_vars

\* Two calls with the same email have both returned.
C4_Witness ==
    \E r, q \in Req :
        /\ r # q
        /\ Returned(r) /\ Returned(q)
        /\ calls[r] = calls[q]
        /\ svc[r][1].user.id = svc[q][1].user.id

(***************************************************************************)
(* C5: for a request on a protected path with a non-empty X-Forwarded-Email*)
(* the gate calls findOrCreateUserByEmail exactly once, with exactly the   *)
(* header value, and when that call returned the request is allowed with   *)
(* an identity whose email is the header value.                            *)
(***************************************************************************)
C5_ProvisionAndAllow ==
    \A r \in Req :
        (OnProtectedPath(r) /\ HasForwardedEmail(r))
        => /\ calls[r] = <<ForwardedEmailOf(r)[1]>>
           /\ (pc[r] = "done" /\ Returned(r))
              => /\ Allowed(r)
                 /\ reqUser[r] # <<>>
                 /\ reqUser[r][1].email = ForwardedEmailOf(r)[1]

\* A request for an email without a record was allowed, next to a record of
\* another email.
C5_Witness ==
    \E r \in Req :
        /\ OnProtectedPath(r) /\ HasForwardedEmail(r)
        /\ Allowed(r)
        /\ reqUser[r] # <<>>
        /\ \E u \in users : u.id = reqUser[r][1].id /\ u.createdDate = Cardinality(users)
        /\ Cardinality(users) = 2

C7_CaseMismatchDenied ==
    \A r \in Req :
        ( /\ Arrived(r)
          /\ MatchesCaseInsensitively(PathOf(r))
          /\ ~MatchesCaseSensitively(PathOf(r)) )
        => /\ DeniedWith(r, 401, "Unauthorized Access - Invalid Path Structure")
           /\ res[r][1].error # "Unauthorized: X-Forwarded-Email header is required"
           /\ calls[r] = <<>>
           /\ svc[r] = <<>>
           /\ reqUser[r] = <<>>

\* A case-mangled path carrying a usable X-Forwarded-Email was denied.
C7_Witness ==
    \E r \in Req :
        /\ Arrived(r)
        /\ PathOf(r) = PathUpper
        /\ HasForwardedEmail(r)
        /\ res[r] # <<>>

(***************************************************************************)
(* C8: a request whose path does not match the API-version pattern, even   *)
(* ignoring case, is handed to downstream routing whatever its headers,    *)
(* with no call of the Identity Store and no response.                     *)
(***************************************************************************)
C8_NotInScopePassesThrough ==
    \A r \in Req :
        (Arrived(r) /\ ~MatchesCaseInsensitively(PathOf(r)))
        => /\ Allowed(r)
           /\ calls[r] = <<>>
           /\ svc[r] = <<>>

\* /api/v1 (no closing slash) with both headers set was handed on.
C8_Witness ==
    \E r \in Req :
        /\ Arrived(r)
        /\ PathOf(r) = PathApiNoSlash
        /\ HasForwardedEmail(r)
        /\ AuthorizationOf(r) # <<>>
        /\ nextCalls[r] = 1

(***************************************************************************)
(* C9: a request whose path matches the API-version pattern case-          *)
(* sensitively and starts with a whitelist entry is allowed without a call *)
(* of the Identity Store or of the key validation, with or without an      *)
(* X-Forwarded-Email header.                                               *)
(***************************************************************************)
C9_WhitelistedAllowed ==
    \A r \in Req :
        ( /\ Arrived(r)
          /\ MatchesCaseSensitively(PathOf(r))
          /\ HasWhitelistedPrefix(PathOf(r)) )
        => /\ Allowed(r)
           /\ calls[r] = <<>>
           /\ svc[r] = <<>>
           /\ keyCalls[r] = 0

\* A whitelisted path was handed on once with and once without the header.
C9_Witness ==
    \E r, q \in Req :
        /\ Arrived(r) /\ PathOf(r) = PathWhitelisted /\ HasForwardedEmail(r)
        /\ Arrived(q) /\ PathOf(q) = PathWhitelisted /\ ForwardedEmailOf(q) = <<>>
        /\ nextCalls[r] = 1 /\ nextCalls[q] = 1

(***************************************************************************)
(* C10: whenever the Identity Store call of a request failed, the request  *)
(* is denied with 500 and the authentication-error message; it is never    *)
(* handed to downstream routing and no identity is attached to it.         *)
(***************************************************************************)
C10_StoreFailureDenied ==
    \A r \in Req :
        Threw(r)
        => /\ nextCalls[r] = 0
           /\ reqUser[r] = <<>>
           /\ pc[r] = "done"
              => DeniedWith(r, 500, "Internal Server Error during authentication")

\* A failed findOneBy and a failed save have both been answered.
C10_Witness ==
    \E r, q \in Req :
        /\ r # q
        /\ Threw(r) /\ Threw(q)
        /\ svc[r][1].error = StorageError
        /\ pc[r] = "done" /\ pc[q] = "done"
        /\ res[r] # <<>> /\ res[q] # <<>>

(***************************************************************************)
(* C11: a request on a protected path that carries both a non-empty        *)
(* X-Forwarded-Email and a bearer token is decided on the forwarded-       *)
(* identity path alone: the Identity Store is called with the header's     *)
(* email and the bearer-token validation is never invoked.                 *)
(***************************************************************************)
C11_ForwardedEmailPrecedes ==
    \A r \in Req :
        (OnProtectedPath(r) /\ HasForwardedEmail(r) /\ AuthorizationOf(r) # <<>>)
        => /\ calls[r] = <<ForwardedEmailOf(r)[1]>>
           /\ keyCalls[r] = 0
           /\ pc[r] = "done" => (Allowed(r) <=> Returned(r))

\* A request with both headers was allowed with the identity of its email.
C11_Witness ==
    \E r \in Req :
        /\ OnProtectedPath(r) /\ HasForwardedEmail(r) /\ AuthorizationOf(r) # <<>>
        /\ Allowed(r)
        /\ reqUser[r] # <<>>
        /\ reqUser[r][1].email = ForwardedEmailOf(r)[1]

(***************************************************************************)
(* C12 (as claimed): for every finished request, an identity is attached   *)
(* to the request if and only if the request was allowed.                  *)
(***************************************************************************)
C12_AttachedIffAllowed ==
    \A r \in Req : pc[r] = "done" => (reqUser[r] # <<>> <=> Allowed(r))

(***************************************************************************)
(* C12 (amended): an identity is attached to a request if and only if the  *)
(* request was allowed on a protected path; a request allowed on a path    *)
(* that is not in scope or is whitelisted carries none.                    *)
(***************************************************************************)
C12_AttachedIffAllowedWithIdentity ==
    \A r \in Req : reqUser[r] # <<>> <=> (Allowed(r) /\ OnProtectedPath(r))

\* One request was allowed with an identity, another was allowed without.
C12_Witness ==
    \E r, q \in Req :
        /\ Allowed(r) /\ OnProtectedPath(r) /\ reqUser[r] # <<>>
        /\ Allowed(q) /\ ~OnProtectedPath(q) /\ reqUser[q] = <<>>

(***************************************************************************)
(* C13: the gate writes an identity only on the AllowWithIdentity          *)
(* transition: req.user changes only in the step that hands a request with *)
(* a returned record to downstream routing, and every request that was     *)
(* denied or allowed anonymously has had nothing written to req.user.      *)
(***************************************************************************)
C13_AttachOnlyOnAllowWithIdentity ==
    /\ [](\A r \in Req :
            (res[r] # <<>> \/ (Arrived(r) /\ ~OnProtectedPath(r)))
            => /\ reqUser[r] = <<>>
               /\ \A i \in 1..Len(trace[r]) : trace[r][i] # "attach")
    /\ [][ \A r \in Req :
             reqUser'[r] # reqUser[r]
             => /\ Returned(r)
                /\ reqUser[r] = <<>>
                /\ nextCalls[r] = 0 /\ nextCalls'[r] = 1
                /\ res'[r] = <<>> ]_vars

\* One request was denied with 500 after a failed store call, another was
\* allowed anonymously; neither carries an identity.
C13_Witness ==
    \E r, q \in Req :
        /\ r # q
        /\ Threw(r) /\ res[r] # <<>> /\ reqUser[r] = <<>>
        /\ Allowed(q) /\ ~OnProtectedPath(q) /\ reqUser[q] = <<>>

MentionsInvalidLicense(error) ==
    error \notin { "Unauthorized: X-Forwarded-Email header is required",
                   "Unauthorized Access - Invalid Path Structure",
                   "Internal Server Error during authentication" }

Occurrences(seq, event) == Cardinality({ i \in 1..Len(seq) : seq[i] = event })

(***************************************************************************)
(* C16: when findOrCreateUserByEmail is called with an email that has a    *)
(* record, the findOneBy step returns that record and writes nothing: the  *)
(* user table is the same before and after, and the returned record is a   *)
(* row of it.  A findOneBy step goes on to the save only when the email    *)
(* has no record.                                                          *)
(***************************************************************************)
C16_FoundIsReturnedUnchanged ==
    [][ \A r \in Req :
          /\ ( /\ pc[r] = "findOneBy"
               /\ svc'[r] # svc[r]
               /\ svc'[r][1].kind = "return" )
             => /\ users' = users
                /\ svc'[r][1].user \in users
                /\ svc'[r][1].user.email = calls[r][1]
          /\ (pc[r] = "findOneBy" /\ pc'[r] = "save")
             => RowsOf(users, calls[r][1]) = {} ]_vars

\* A call found the record another request had created.
C16_Witness ==
    \E r \in Req :
        /\ Returned(r)
        /\ Occurrences(trace[r], "findOneBy") = 1
        /\ Occurrences(trace[r], "save") = 0
        /\ svc[r][1].user \in users

(***************************************************************************)
(* C17: the user table changes only by findOrCreateUserByEmail creating a  *)
(* record for an email that had none: every step that changes the table    *)
(* is the save of a request on a protected path with a forwarded email,    *)
(* adds exactly one row carrying that email, keeps every existing row as   *)
(* it was, and is the only save of that request.                           *)
(***************************************************************************)
C17_TableChangesOnlyByProvisioning ==
    [][ users' # users
        => \E r \in Req :
             /\ OnProtectedPath(r) /\ HasForwardedEmail(r)
             /\ pc[r] = "save" /\ pc'[r] = "settled"
             /\ Occurrences(trace[r], "save") = 0
             /\ users \subseteq users'
             /\ Cardinality(users') = Cardinality(users) + 1
             /\ \A row \in users' \ users : row.email = ForwardedEmailOf(r)[1]
             /\ RowsOf(users, ForwardedEmailOf(r)[1]) = {} ]_vars

\* One request created a record; a request with an empty header on a
\* protected path came and went without a trace in the table.
C17_Witness ==
    \E r, q \in Req :
        /\ Returned(r) /\ Occurrences(trace[r], "save") = 1
        /\ OnProtectedPath(q) /\ ForwardedEmailOf(q) = <<"">> /\ pc[q] = "done"
        /\ Cardinality(users) = 1

(***************************************************************************)
(* C18: when findOrCreateUserByEmail fails, in its findOneBy or in its     *)
(* save, the failure reaches the caller and the user table is exactly as   *)
(* before the failing step: the failed call has added nothing.             *)
(***************************************************************************)
C18_FailureLeavesTableUnchanged ==
    [][ \A r \in Req :
          (svc[r] = <<>> /\ svc'[r] # <<>> /\ svc'[r][1].kind = "throw")
          => /\ users' = users
             /\ pc'[r] = "settled"
             /\ reqUser'[r] = <<>> /\ nextCalls'[r] = 0 ]_vars

\* A save failed for a reason other than the constraint, and the table is
\* empty.
C18_Witness ==
    \E r \in Req :
        /\ Threw(r) /\ svc[r][1].error = StorageError
        /\ Occurrences(trace[r], "save") = 1
        /\ users = {}
        /\ pc[r] = "done"

(***************************************************************************)
(* C19: the gate calls findOrCreateUserByEmail at most once per request    *)
(* and a request attempts at most one save; once the call has failed the   *)
(* gate makes no further call and its next step is the 500 denial.         *)
(***************************************************************************)
C19_NoRetry ==
    /\ [](\A r \in Req :
            /\ Len(calls[r]) <= 1
            /\ Occurrences(trace[r], "call") = Len(calls[r])
            /\ Occurrences(trace[r], "findOneBy") <= 1
            /\ Occurrences(trace[r], "save") <= 1)
    /\ [][ \A r \in Req :
             Threw(r)
             => /\ calls'[r] = calls[r]
                /\ svc'[r] = svc[r]
                /\ pc'[r] \in {"settled", "done"}
                /\ (pc[r] = "settled" /\ pc'[r] = "done")
                   => res'[r] = <<[status |-> 500,
                                   error |-> "Internal Server Error during authentication"]>> ]_vars

\* A request whose only call failed was denied.
C19_Witness ==
    \E r \in Req :
        /\ Threw(r)
        /\ pc[r] = "done"
        /\ Len(calls[r]) = 1
        /\ res[r] # <<>>

(***************************************************************************)
(* C20: within one request the steps are taken in the order                *)
(* classification, header extraction, store call, identity attachment,     *)
(* hand-off: the store is called only right after the extraction, on a     *)
(* path classified protected with a forwarded email; the identity is       *)
(* written right after the store call returned and right before the        *)
(* hand-off, which is the last step.                                       *)
(***************************************************************************)
C20_StepsInOrder ==
    \A r \in Req :
        LET t == trace[r]
        IN  /\ t # <<>> => t[1] = "classify"
            /\ \A e \in {"classify", "extract", "call", "attach", "next"} :
                 Occurrences(t, e) <= 1
            /\ \A i \in 1..Len(t) :
                 /\ t[i] = "extract" => (i = 2 /\ OnProtectedPath(r))
                 /\ t[i] = "call"
                    => /\ i = 3 /\ t[2] = "extract"
                       /\ OnProtectedPath(r) /\ HasForwardedEmail(r)
                 /\ t[i] \in {"findOneBy", "save"} => i > 3
                 /\ t[i] = "attach"
                    => /\ i > 3 /\ t[i - 1] = "return"
                       /\ i < Len(t) /\ t[i + 1] = "next"
                 /\ t[i] = "next" => i = Len(t)
            /\ Occurrences(t, "call") = Len(calls[r])
            /\ Occurrences(t, "attach") = Len(reqUser[r])
            /\ Occurrences(t, "next") = nextCalls[r]
            /\ (nextCalls[r] = 1 /\ OnProtectedPath(r)) => reqUser[r] # <<>>

\* A request went through all five steps, creating its record.
C20_Witness ==
    \E r \in Req :
        trace[r] = <<"classify", "extract", "call", "findOneBy", "save", "return",
                     "attach", "next">>

(***************************************************************************)
(* C21: whenever the gate allowed a request with an identity, req.user has *)
(* the id and the email of the record the store returned, that email as    *)
(* its name, isAuthenticatedByHeader true, isApiKeyValidated and           *)
(* isOrganizationAdmin false, and every role, organization, workspace,     *)
(* permission, feature and SSO field empty or absent; no other header of   *)
(* the request has a part in it.                                           *)
(***************************************************************************)
C21_IdentityShape ==
    \A r \in Req :
        reqUser[r] # <<>>
        => /\ Returned(r)
           /\ Len(reqUser[r]) = 1
           /\ reqUser[r][1] =
                [id |-> svc[r][1].user.id,
                 email |-> svc[r][1].user.email,
                 name |-> svc[r][1].user.email,
                 isAuthenticatedByHeader |-> TRUE,
                 isApiKeyValidated |-> FALSE,
                 isOrganizationAdmin |-> FALSE,
                 roleId |-> "",
                 activeOrganizationId |-> "",
                 activeOrganizationSubscriptionId |-> "",
                 activeOrganizationCustomerId |-> "",
                 activeOrganizationProductId |-> "",
                 activeWorkspaceId |-> "",
                 activeWorkspace |-> "",
                 assignedWorkspaces |-> <<>>,
                 permissions |-> <<>>,
                 features |-> {},
                 ssoRefreshToken |-> <<>>,
                 ssoToken |-> <<>>,
                 ssoProvider |-> <<>>]

\* Two requests were allowed with an identity, one of them carrying an
\* Authorization header next to its forwarded email and one not.
C21_Witness ==
    \E r, q \in Req :
        /\ Allowed(r) /\ reqUser[r] # <<>> /\ AuthorizationOf(r) # <<>>
        /\ Allowed(q) /\ reqUser[q] # <<>> /\ AuthorizationOf(q) = <<>>

(***************************************************************************)
(* C22: no step deletes a user record or changes its id or its email: the  *)
(* set of (id, email) pairs of the table only grows.  A step that adds a   *)
(* pair adds exactly one, with an id and an email no stored record had,    *)
(* and it is the save of a request resolving that email, which had found   *)
(* no record for it and which is returned the new record.                  *)
(***************************************************************************)
IdEmailPairs(table) == { <<u.id, u.email>> : u \in table }

C22_RecordsOnlyAdded ==
    [][LET added == IdEmailPairs(users') \ IdEmailPairs(users)
       IN  /\ IdEmailPairs(users) \subseteq IdEmailPairs(users')
           /\ Cardinality(users') = Cardinality(IdEmailPairs(users'))
           /\ added # {}
              => /\ Cardinality(added) = 1
                 /\ \A n \in added :
                      /\ \A u \in users : u.id # n[1] /\ u.email # n[2]
                      /\ \E r \in Req :
                           /\ OnProtectedPath(r)
                           /\ ForwardedEmailOf(r) = <<n[2]>>
                           /\ trace[r][Len(trace[r])] = "findOneBy"
                           /\ trace'[r] = trace[r] \o <<"save", "return">>
                           /\ svc'[r] = <<[kind |-> "return",
                                           user |-> CHOOSE u \in users' : u.id = n[1]]>>
      ]_vars

\* The table holds the records of two emails: the second was added, and
\* returned to the request that resolved it, while the first was stored,
\* and the first is still there.
C22_Witness ==
    /\ Cardinality(IdEmailPairs(users)) = 2
    /\ \E u \in users : u.createdDate = 1
    /\ \E r \in Req :
         /\ Returned(r)
         /\ svc[r][1].user \in users
         /\ svc[r][1].user.createdDate = 2

(***************************************************************************)
(* C23: the class of a path is a function of the path alone.  Any two      *)
(* requests with the same path were classified alike, and as the path      *)
(* itself says, whatever their headers, the user table at their arrival    *)
(* and the requests handled before them; and when the class is not         *)
(* "protected" the gate decided the same for both: the same hand-off or    *)
(* the same response, no store call and no identity.                       *)
(***************************************************************************)
PathClass(p) ==
    IF ~MatchesCaseInsensitively(p) THEN "not-in-scope"
    ELSE IF ~MatchesCaseSensitively(p) THEN "case-mismatch"
    ELSE IF HasWhitelistedPrefix(p) THEN "whitelisted"
    ELSE "protected"

\* What the gate did right after classifying r: handed it on, answered it,
\* or went on to read the forwarded email.
TreatedAs(r) ==
    CASE trace[r][2] = "next" -> {"not-in-scope", "whitelisted"}
      [] trace[r][2] = "respond" -> {"case-mismatch"}
      [] trace[r][2] = "extract" -> {"protected"}

DecisionOf(r) == <<pc[r], nextCalls[r], res[r], reqUser[r], calls[r], svc[r]>>

C23_ClassByPathAlone ==
    \A r \in Req :
        Arrived(r)
        => /\ PathClass(PathOf(r)) \in TreatedAs(r)
           /\ \A q \in Req \ {r} :
                (Arrived(q) /\ PathOf(q) = PathOf(r))
                => /\ TreatedAs(q) = TreatedAs(r)
                   /\ "protected" \notin TreatedAs(r) => DecisionOf(q) = DecisionOf(r)

\* Two requests for the same path, a whitelisted or a case-mismatched one,
\* that differ in both of their headers.
C23_Witness ==
    \E r, q \in Req :
        /\ r # q
        /\ Arrived(r) /\ Arrived(q)
        /\ PathOf(r) = PathOf(q)
        /\ PathClass(PathOf(r)) \in {"whitelisted", "case-mismatch"}
        /\ ForwardedEmailOf(r) # ForwardedEmailOf(q)
        /\ AuthorizationOf(r) # AuthorizationOf(q)

(***************************************************************************)
(* C24: a request on a protected path that was handed to downstream        *)
(* routing has an identity attached, and an attached identity carries the  *)
(* id of a record that is in the user table under the identity's email,    *)
(* from the hand-off on.                                                   *)
(***************************************************************************)
C24_ProtectedNeedsStoredIdentity ==
    \A r \in Req :
        /\ (OnProtectedPath(r) /\ nextCalls[r] > 0)
           => /\ reqUser[r] # <<>>
              /\ reqUser[r][1].isAuthenticatedByHeader
        /\ reqUser[r] # <<>>
           => /\ nextCalls[r] > 0
              /\ \E u \in users :
                   u.id = reqUser[r][1].id /\ u.email = reqUser[r][1].email

\* Two protected requests for one email were handed on: the one that
\* created the record and one that found it afterwards.
C24_Witness ==
    \E r, q \in Req :
        /\ OnProtectedPath(r) /\ nextCalls[r] = 1
        /\ OnProtectedPath(q) /\ nextCalls[q] = 1
        /\ Occurrences(trace[r], "save") = 1
        /\ Occurrences(trace[q], "save") = 0
        /\ reqUser[r] = reqUser[q]

(***************************************************************************)
(* C25: a request has at most one terminal outcome at any time, a hand-off *)
(* to downstream routing or a deny response, never both and never one of   *)
(* them twice; and, storage calls being answered eventually, every request *)
(* that entered the gate eventually has exactly one, for good: a request   *)
(* that entered stays entered, so from some point on every request that    *)
(* has entered has its one outcome.                                        *)
(***************************************************************************)
Outcomes(r) == nextCalls[r] + Len(res[r])

C25_ExactlyOneOutcome ==
    /\ [](\A r \in Req : /\ Outcomes(r) <= 1
                         /\ pc[r] = "done" => Outcomes(r) = 1
                         /\ ~Arrived(r) => Outcomes(r) = 0)
    /\ <>[](\A r \in Req : Arrived(r) => Outcomes(r) = 1)

\* One request was answered with the 500 after its store call failed and
\* another was handed on after its store call returned.
C25_Witness ==
    \E r, q \in Req :
        /\ Threw(r) /\ pc[r] = "done" /\ Len(res[r]) = 1 /\ nextCalls[r] = 0
        /\ Returned(q) /\ pc[q] = "done" /\ res[q] = <<>> /\ nextCalls[q] = 1

(***************************************************************************)
(* C26: however requests with different forwarded emails interleave, the   *)
(* identity attached to a request has the email of that request's own      *)
(* X-Forwarded-Email header and the id of the one record stored for that   *)
(* email; identities attached for different emails have different ids.     *)
(***************************************************************************)
C26_OwnIdentity ==
    /\ \A r \in Req :
         reqUser[r] # <<>>
         => /\ OnProtectedPath(r)
            /\ HasForwardedEmail(r)
            /\ <<reqUser[r][1].email>> = ForwardedEmailOf(r)
            /\ { u.id : u \in RowsOf(users, ForwardedEmailOf(r)[1]) } = {reqUser[r][1].id}
    /\ \A r, q \in Req :
         (reqUser[r] # <<>> /\ reqUser[q] # <<>> /\ ForwardedEmailOf(r) # ForwardedEmailOf(q))
         => reqUser[r][1].id # reqUser[q][1].id

\* q was allowed with the record it created second, while r, whose store
\* call had returned the record of another email created first, was still
\* waiting for its continuation: the two requests overlapped.
C26_Witness ==
    \E r, q \in Req :
        /\ pc[r] = "settled" /\ Returned(r)
        /\ svc[r][1].user.createdDate = 1
        /\ Allowed(q) /\ reqUser[q] # <<>>
        /\ svc[q][1].user.createdDate = 2
        /\ ForwardedEmailOf(q) # ForwardedEmailOf(r)

(***************************************************************************)
(* C27: the case check comes before the whitelist check.  A request whose  *)
(* path is a whitelisted path with the case of its /api/v1/ part changed   *)
(* (the path matches the pattern only when case is ignored, and it starts  *)
(* with a whitelisted prefix only when case is ignored) is answered with   *)
(* the 401 "Unauthorized Access - Invalid Path Structure" whatever its     *)
(* headers, and is never handed on as a whitelisted path would be.         *)
(***************************************************************************)
CaseMangledWhitelisted(p) ==
    /\ MatchesCaseInsensitively(p)
    /\ ~MatchesCaseSensitively(p)
    /\ HasWhitelistedPrefix(Folded(p))
    /\ ~HasWhitelistedPrefix(p)

C27_CaseCheckBeforeWhitelist ==
    \A r \in Req :
        (Arrived(r) /\ CaseMangledWhitelisted(PathOf(r)))
        => /\ DeniedWith(r, 401, "Unauthorized Access - Invalid Path Structure")
           /\ trace[r] = <<"classify", "respond">>
           /\ reqUser[r] = <<>>
           /\ calls[r] = <<>>

\* /API/v1/m/c was denied once without any header and once with a
\* forwarded email, while /api/v1/m/c itself is a whitelisted path.
C27_Witness ==
    /\ CaseMangledWhitelisted(PathUpperWhitelisted)
    /\ PathClass(PathWhitelisted) = "whitelisted"
    /\ \E r, q \in Req :
         /\ Arrived(r) /\ PathOf(r) = PathUpperWhitelisted
         /\ ~HasForwardedEmail(r) /\ AuthorizationOf(r) = <<>>
         /\ Arrived(q) /\ PathOf(q) = PathUpperWhitelisted
         /\ HasForwardedEmail(q)
         /\ res[r] # <<>> /\ res[q] # <<>>

====
